---- MODULE Spec2Model ----
(***************************************************************************)
(* A model of the factory-thing production-chain engine:                   *)
(*   - Stream::efficiency / Stream::rate_of      (src/src/main.rs)         *)
(*   - Factory::solve, the capacity balancer     (src/src/factory.rs)      *)
(*   - Factory::tick, the discrete simulator     (src/src/factory.rs)      *)
(* The rate algebra (rate.rs), Buffer::fill_from, Stream::try_produce and  *)
(* Recipe::required_of are not part of the available sources; they are     *)
(* modelled from their description in spec.md.                             *)
(***************************************************************************)
EXTENDS Integers, Sequences, FiniteSets, TLC

VARIABLES
    streams,    \* Factory.streams: name -> Stream {mult, recipe, inputs, buffers, next}
    order,      \* the iteration order of the HashMap Factory.streams
    stack,      \* the call stack of Factory::solve (empty: no call in progress)
    last,       \* the last completed operation: its kind, arguments, pre-state, report
    products,   \* Factory.products: name -> product id
    recipes,    \* Factory.recipes: name -> the recipe registered under it
    reg         \* the registrations so far: the order the streams were registered
                \* in, and the last batch with its outcome and pre-state

vars == <<streams, order, stack, last, products, recipes, reg>>

\* the definitions, which only the registration commands change
defs == <<products, recipes, reg>>

-----------------------------------------------------------------------------
(* Bounds of the model *)

\* largest argument of tick
MaxTicks == 5

\* largest number of definitions in one batch
MaxBatch == 2

\* largest multiplier and largest stock of a buffer when try_produce is
\* applied to a stream on its own
MaxMult == 2

MaxStock == 8

\* largest capacity given to the buffer command
MaxCapacity == 1

\* largest stock of a buffer at which the clock is still advanced between
\* buffer commands
MaxHeld == 1

-----------------------------------------------------------------------------
(* Program constants *)

DEFAULT_BUF_MULT == 8

\* Option<usize>::None for Stream.next
None == 0 - 1

\* F applied to the value of v (v is evaluated once, as a `let` binding is)
With(v, F(_)) == CHOOSE y \in {F(x) : x \in {v}} : TRUE

-----------------------------------------------------------------------------
(* Rate algebra: a Rate is "amount units every ticks ticks"; an Efficiency  *)
(* (f64) is kept as an exact fraction [num, den]; den = 0 stands for the    *)
(* IEEE results of a division by zero (num > 0: +inf, num = 0: NaN).        *)

Rate(a, t) == [amount |-> a, ticks |-> t]

RateMulInt(r, n) == [amount |-> r.amount * n, ticks |-> r.ticks]

RateMulEff(r, e) == [amount |-> r.amount * e.num, ticks |-> r.ticks * e.den]

RateAdd(r, q) ==
    IF r.amount = 0 THEN q
    ELSE IF q.amount = 0 THEN r
    ELSE [amount |-> r.amount * q.ticks + q.amount * r.ticks, ticks |-> r.ticks * q.ticks]

RateLess(r, q) == r.amount * q.ticks < q.amount * r.ticks

RateIsZero(r) == r.amount = 0

RECURSIVE GCD(_, _)
GCD(a, b) == IF b = 0 THEN a ELSE With(a % b, LAMBDA r : GCD(b, r))

\* a fraction in lowest terms (x / 0 is kept as 1 / 0 or 0 / 0)
Fraction(n, d) ==
    IF d = 0 THEN [num |-> IF n = 0 THEN 0 ELSE 1, den |-> 0]
    ELSE [num |-> n \div GCD(n, d), den |-> d \div GCD(n, d)]

\* Rate / Rate: the ratio of the two throughputs
RateDiv(r, q) == Fraction(r.amount * q.ticks, r.ticks * q.amount)

EffOne == [num |-> 1, den |-> 1]

EffZero == [num |-> 0, den |-> 1]

EffIsNaN(e) == e.den = 0 /\ e.num = 0

EffLess(e, f) ==
    IF e.den = 0 THEN FALSE
    ELSE IF f.den = 0 THEN TRUE
    ELSE e.num * f.den < f.num * e.den

\* f64::min: a NaN operand is ignored
EffMin(e, f) ==
    IF EffIsNaN(e) THEN f
    ELSE IF EffIsNaN(f) THEN e
    ELSE IF EffLess(f, e) THEN f ELSE e

-----------------------------------------------------------------------------
(* Products and recipes (immutable after registration) *)

Products == {"A", "B", "C"}

Part(p, n) == [product |-> p, amount |-> n]

Recipe(period, ins, outs) == [rate |-> Rate(1, period), inputs |-> ins, outputs |-> outs]

Recipes ==
    [ mineA  |-> Recipe(4, <<>>, <<Part("A", 1)>>),
      quickA |-> Recipe(2, <<>>, <<Part("A", 1)>>),
      mineA2 |-> Recipe(4, <<>>, <<Part("A", 2)>>),
      mineAB |-> Recipe(4, <<>>, <<Part("A", 1), Part("B", 1)>>),
      mkB    |-> Recipe(4, <<Part("A", 2)>>, <<Part("B", 3)>>),
      mkC    |-> Recipe(4, <<Part("A", 3), Part("B", 2)>>, <<Part("C", 1)>>),
      mkC5   |-> Recipe(4, <<Part("A", 5), Part("B", 2)>>, <<Part("C", 1)>>),
      mkD    |-> Recipe(4, <<Part("B", 1)>>, <<Part("C", 1)>>),
      quickB |-> Recipe(2, <<Part("A", 2)>>, <<Part("B", 3)>>),
      mkD0   |-> Recipe(4, <<Part("A", 0)>>, <<Part("C", 1)>>),
      fastA  |-> Recipe(1, <<>>, <<Part("A", 1)>>),
      mkCr   |-> Recipe(4, <<Part("B", 2), Part("A", 3)>>, <<Part("C", 1)>>) ]

RECURSIVE SumParts(_, _, _)
SumParts(parts, product, i) ==
    IF i > Len(parts) THEN 0
    ELSE (IF parts[i].product = product THEN parts[i].amount ELSE 0)
         + SumParts(parts, product, i + 1)

optimal_inflow_of(recipe, product) ==
    RateMulInt(recipe.rate, SumParts(recipe.inputs, product, 1))

optimal_outflow_of(recipe, product) ==
    RateMulInt(recipe.rate, SumParts(recipe.outputs, product, 1))

required_of(recipe, product) == SumParts(recipe.inputs, product, 1)

-----------------------------------------------------------------------------
(* Streams *)

Bind(p, s) == [product |-> p, stream |-> s]

Buffer(c, m) == [current |-> c, max |-> m]

RecipeOf(st, s) == Recipes[st[s].recipe]

\* HashMap::insert keeps the last value inserted under a key
LastAmount(parts, product) ==
    LET idx == {i \in 1..Len(parts) : parts[i].product = product}
    IN  parts[CHOOSE i \in idx : \A j \in idx : j <= i].amount

\* Factory::parse_call: a stream of `recipe` bound to `inputs`, mult 1, one
\* empty buffer of amount * DEFAULT_BUF_MULT per output part, next unset
parse_call(recipe, inputs) ==
    LET outs == Recipes[recipe].outputs
        prods == {outs[i].product : i \in 1..Len(outs)}
    IN  [ mult    |-> 1,
          recipe  |-> recipe,
          inputs  |-> inputs,
          buffers |-> [p \in prods |->
                         Buffer(0, LastAmount(outs, p) * DEFAULT_BUF_MULT)],
          next    |-> None ]

\* Factory::stream_from_expr: `recipe(inputs)` or `recipe(inputs) * mult`; the
\* multiplier is stored on the finished stream, the buffers are left as built
stream_from_expr(recipe, inputs, mult) ==
    [parse_call(recipe, inputs) EXCEPT !.mult = mult]

\* Option<Rate>
Some(r) == [some |-> TRUE, rate |-> r]

NoRate == [some |-> FALSE, rate |-> Rate(0, 1)]

RECURSIVE InputsRateOf(_, _, _, _)
RECURSIVE efficiency(_, _)
RECURSIVE rate_of(_, _, _)

\* rate_of without the efficiency factor
rate_of_optimal(st, s, product) ==
    LET outflow == optimal_outflow_of(RecipeOf(st, s), product)
    IN  IF ~RateIsZero(outflow)
        THEN Some(RateMulInt(outflow, st[s].mult))
        ELSE NoRate

\* Stream::rate_of
rate_of(st, s, product) ==
    LET outflow == optimal_outflow_of(RecipeOf(st, s), product)
    IN  IF ~RateIsZero(outflow)
        THEN With(efficiency(st, s),
                  LAMBDA e : Some(RateMulInt(RateMulEff(outflow, e), st[s].mult)))
        ELSE NoRate

\* InputStreams::rate_of: the sum of the Some(rate) of the bound streams, from slot i on
InputsRateOf(st, s, product, i) ==
    IF i > Len(st[s].inputs) THEN Rate(0, 1)
    ELSE With(rate_of(st, st[s].inputs[i].stream, product), LAMBDA r :
         With(InputsRateOf(st, s, product, i + 1), LAMBDA rest :
              IF r.some THEN RateAdd(r.rate, rest) ELSE rest))

\* the closure of efficiency's map: rate / (optimal_inflow * self.mult) for input part i
EffComponent(st, s, i) ==
    LET product == RecipeOf(st, s).inputs[i].product
    IN  With(InputsRateOf(st, s, product, 1), LAMBDA rate :
             RateDiv(rate, RateMulInt(optimal_inflow_of(RecipeOf(st, s), product), st[s].mult)))

RECURSIVE ReduceMin(_, _, _, _)
ReduceMin(st, s, i, acc) ==
    IF i > Len(RecipeOf(st, s).inputs) THEN acc
    ELSE With(EffComponent(st, s, i), LAMBDA e :
         With(EffMin(acc, e), LAMBDA least : ReduceMin(st, s, i + 1, least)))

\* efficiency without its final clamp
NoClamp(e) == e

\* the final .min(1.0) of efficiency
Clamp(e) == EffMin(e, EffOne)

\* Stream::efficiency
efficiency(st, s) ==
    IF Len(st[s].inputs) = 0 THEN EffOne
    ELSE LET n == Len(RecipeOf(st, s).inputs)
         IN  With(IF n = 0 THEN EffZero
                  ELSE With(EffComponent(st, s, 1), LAMBDA e : ReduceMin(st, s, 2, e)),
                  LAMBDA e : Clamp(e))

-----------------------------------------------------------------------------
(* Buffers *)

HasBuffer(stream, product) == product \in DOMAIN stream.buffers

\* HashMap::insert on Stream.buffers
InsertBuffer(buffers, product, buf) ==
    [p \in DOMAIN buffers \cup {product} |-> IF p = product THEN buf ELSE buffers[p]]

\* Buffer::fill_from: move min(source.current, self.max - self.current) units;
\* the subtraction is on usize, so it wraps to a huge headroom when current > max
fill_from(own, source) ==
    LET amount == IF own.max < own.current THEN source.current
                  ELSE IF source.current < own.max - own.current THEN source.current
                  ELSE own.max - own.current
    IN  [ own    |-> [own EXCEPT !.current = own.current + amount],
          source |-> [source EXCEPT !.current = source.current - amount] ]

RECURSIVE TakeInputs(_, _, _, _)
TakeInputs(buffers, parts, mult, i) ==
    IF i > Len(parts) THEN buffers
    ELSE With([buffers EXCEPT ![parts[i].product].current = @ - parts[i].amount * mult],
              LAMBDA taken : TakeInputs(taken, parts, mult, i + 1))

RECURSIVE PutOutputs(_, _, _, _)
PutOutputs(buffers, parts, mult, i) ==
    IF i > Len(parts) THEN buffers
    ELSE With([buffers EXCEPT ![parts[i].product].current = @ + parts[i].amount * mult],
              LAMBDA put : PutOutputs(put, parts, mult, i + 1))

\* CanProduce without the test of the free capacity of the output buffers
CanProduceIgnoringRoom(stream) ==
    LET recipe == Recipes[stream.recipe]
    IN  \A i \in 1..Len(recipe.inputs) :
            /\ HasBuffer(stream, recipe.inputs[i].product)
            /\ stream.buffers[recipe.inputs[i].product].current
                   >= recipe.inputs[i].amount * stream.mult

\* whether one production cycle is possible: stock for every input part and
\* free capacity for every output part, both scaled by mult
CanProduce(stream) ==
    LET recipe == Recipes[stream.recipe]
    IN  /\ \A i \in 1..Len(recipe.inputs) :
              /\ HasBuffer(stream, recipe.inputs[i].product)
              /\ stream.buffers[recipe.inputs[i].product].current
                     >= recipe.inputs[i].amount * stream.mult
        /\ \A i \in 1..Len(recipe.outputs) :
              /\ HasBuffer(stream, recipe.outputs[i].product)
              /\ stream.buffers[recipe.outputs[i].product].current
                     + recipe.outputs[i].amount * stream.mult
                     <= stream.buffers[recipe.outputs[i].product].max

\* Stream::try_produce: all-or-nothing production of one cycle
try_produce(stream) ==
    LET recipe == Recipes[stream.recipe]
    IN  IF CanProduce(stream)
        THEN [ ok |-> TRUE,
               stream |-> [stream EXCEPT !.buffers =
                   PutOutputs(TakeInputs(@, recipe.inputs, stream.mult, 1),
                              recipe.outputs, stream.mult, 1)] ]
        ELSE [ ok |-> FALSE, stream |-> stream ]

-----------------------------------------------------------------------------
(* Factory::tick *)

\* Decompose counting the countdown up instead of down
RECURSIVE DecomposeCountingUp(_, _, _, _)
DecomposeCountingUp(ticks, cycles, next, reset) ==
    IF ticks > 0
    THEN IF ticks > reset
         THEN With(<<ticks % reset, cycles + (ticks \div reset)>>,
                   LAMBDA v : DecomposeCountingUp(v[1], v[2], next, reset))
         ELSE IF ticks >= next
         THEN With(<<ticks - next, cycles + 1>>,
                   LAMBDA v : DecomposeCountingUp(v[1], v[2], next, reset))
         ELSE With(next + ticks, LAMBDA left : DecomposeCountingUp(0, cycles, left, reset))
    ELSE [cycles |-> cycles, next |-> next]

\* the while loop splitting the elapsed ticks into cycle boundaries
RECURSIVE Decompose(_, _, _, _)
Decompose(ticks, cycles, next, reset) ==
    IF ticks > 0
    THEN IF ticks > reset
         THEN With(<<ticks % reset, cycles + (ticks \div reset)>>,
                   LAMBDA v : Decompose(v[1], v[2], next, reset))
         ELSE IF ticks >= next
         THEN With(<<ticks - next, cycles + 1>>,
                   LAMBDA v : Decompose(v[1], v[2], next, reset))
         ELSE With(next - ticks, LAMBDA left : Decompose(0, cycles, left, reset))
    ELSE [cycles |-> cycles, next |-> next]

\* PullSlot with the transfer not bounded by the room of the local buffer
PullSlotUnbounded(st, s, i) ==
    LET product == st[s].inputs[i].product
        input   == st[s].inputs[i].stream
    IN  IF HasBuffer(st[input], product)
        THEN LET own == IF HasBuffer(st[s], product) THEN st[s].buffers[product]
                        ELSE Buffer(0, required_of(RecipeOf(st, s), product)
                                           * DEFAULT_BUF_MULT * st[s].mult)
                 src == st[input].buffers[product]
                 st1 == [st EXCEPT ![input].buffers[product].current = 0]
             IN  [st1 EXCEPT ![s].buffers =
                     InsertBuffer(@, product, [own EXCEPT !.current = @ + src.current])]
        ELSE st

\* PullSlot filling a copy of the source buffer, so the source keeps its stock
PullSlotCopiesSource(st, s, i) ==
    LET product == st[s].inputs[i].product
        input   == st[s].inputs[i].stream
    IN  IF HasBuffer(st[input], product)
        THEN LET own == IF HasBuffer(st[s], product) THEN st[s].buffers[product]
                        ELSE Buffer(0, required_of(RecipeOf(st, s), product)
                                           * DEFAULT_BUF_MULT * st[s].mult)
                 f   == fill_from(own, st[input].buffers[product])
             IN  [st EXCEPT ![s].buffers = InsertBuffer(@, product, f.own)]
        ELSE st

\* the input pull of one slot: fill the local buffer (created on first use)
\* from the bound stream's buffer of that product, when it has one
PullSlot(st, s, i) ==
    LET product == st[s].inputs[i].product
        input   == st[s].inputs[i].stream
    IN  IF HasBuffer(st[input], product)
        THEN LET own == IF HasBuffer(st[s], product) THEN st[s].buffers[product]
                        ELSE Buffer(0, required_of(RecipeOf(st, s), product)
                                           * DEFAULT_BUF_MULT * st[s].mult)
                 f   == fill_from(own, st[input].buffers[product])
                 st1 == [st EXCEPT ![input].buffers[product] = f.source]
             IN  [st1 EXCEPT ![s].buffers = InsertBuffer(@, product, f.own)]
        ELSE st

\* what one input pull did, for the report of the operation: the two
\* buffers before and after
PullRecord(st, st2, s, i) ==
    LET product == st[s].inputs[i].product
        input   == st[s].inputs[i].stream
    IN  IF HasBuffer(st[input], product)
        THEN << [ stream |-> s, input |-> input, product |-> product,
                  fresh  |-> ~HasBuffer(st[s], product),
                  source |-> st[input].buffers[product].current,
                  own    |-> IF HasBuffer(st[s], product)
                             THEN st[s].buffers[product].current ELSE 0,
                  max    |-> st2[s].buffers[product].max,
                  source2 |-> st2[input].buffers[product].current,
                  own2    |-> st2[s].buffers[product].current ] >>
        ELSE <<>>

RECURSIVE PullInputs(_, _, _, _)
PullInputs(st, s, i, pulls) ==
    IF i > Len(st[s].inputs) THEN [st |-> st, pulls |-> pulls]
    ELSE With(PullSlot(st, s, i), LAMBDA st2 :
         With(pulls \o PullRecord(st, st2, s, i), LAMBDA log :
              PullInputs(st2, s, i + 1, log)))

\* RunCycles attempting the production before pulling the inputs
RECURSIVE RunCyclesProduceFirst(_, _, _, _, _)
RunCyclesProduceFirst(st, s, cycles, done, pulls) ==
    IF cycles = 0 THEN [st |-> st, done |-> done, pulls |-> pulls]
    ELSE With(try_produce(st[s]), LAMBDA tp :
         With(PullInputs([st EXCEPT ![s] = tp.stream], s, 1, pulls), LAMBDA pulled :
              IF tp.ok
              THEN RunCyclesProduceFirst(pulled.st, s, cycles - 1, done + 1, pulled.pulls)
              ELSE [st |-> pulled.st, done |-> done, pulls |-> pulled.pulls]))

\* RunCycles going on to the next cycle after a failed production
RECURSIVE RunCyclesNoBreak(_, _, _, _, _)
RunCyclesNoBreak(st, s, cycles, done, pulls) ==
    IF cycles = 0 THEN [st |-> st, done |-> done, pulls |-> pulls]
    ELSE With(PullInputs(st, s, 1, pulls), LAMBDA pulled :
         With(try_produce(pulled.st[s]), LAMBDA tp :
         With([pulled.st EXCEPT ![s] = tp.stream], LAMBDA st2 :
              RunCyclesNoBreak(st2, s, cycles - 1, IF tp.ok THEN done + 1 ELSE done,
                               pulled.pulls))))

\* the loop over the elapsed cycles; stops at the first failed production
RECURSIVE RunCycles(_, _, _, _, _)
RunCycles(st, s, cycles, done, pulls) ==
    IF cycles = 0 THEN [st |-> st, done |-> done, pulls |-> pulls]
    ELSE With(PullInputs(st, s, 1, pulls), LAMBDA pulled :
         With(try_produce(pulled.st[s]), LAMBDA tp :
              IF tp.ok
              THEN With([pulled.st EXCEPT ![s] = tp.stream], LAMBDA st2 :
                        RunCycles(st2, s, cycles - 1, done + 1, pulled.pulls))
              ELSE [st |-> pulled.st, done |-> done, pulls |-> pulled.pulls]))

\* the body of tick's loop for one stream; produced is the reported amount
\* per output part (amount * mult summed over the successful cycles)
TickStream(st, s, ticks) ==
    LET reset == RecipeOf(st, s).rate.ticks
        next  == IF st[s].next = None THEN reset ELSE st[s].next
        outs  == RecipeOf(st, s).outputs
    IN  With(Decompose(ticks, 0, next, reset), LAMBDA d :
        With(RunCycles([st EXCEPT ![s].next = d.next], s, d.cycles, 0, <<>>), LAMBDA r :
             [ st       |-> r.st,
               cycles   |-> d.cycles,
               pulls    |-> r.pulls,
               produced |-> [i \in 1..Len(outs) |-> r.done * outs[i].amount * st[s].mult] ]))

\* for stream in self.streams.values() { ... }
RECURSIVE TickAll(_, _, _, _, _, _, _)
TickAll(st, ord, i, ticks, produced, cycles, pulls) ==
    IF i > Len(ord)
    THEN [st |-> st, produced |-> produced, cycles |-> cycles, pulls |-> pulls]
    ELSE With(TickStream(st, ord[i], ticks), LAMBDA r :
         With(<<[produced EXCEPT ![ord[i]] = r.produced],
                [cycles EXCEPT ![ord[i]] = r.cycles],
                pulls \o r.pulls>>, LAMBDA acc :
              TickAll(r.st, ord, i + 1, ticks, acc[1], acc[2], acc[3])))

NoReport(st) == [s \in DOMAIN st |-> <<>>]

NoCycles(st) == [s \in DOMAIN st |-> 0]

Tick(ticks) ==
    /\ stack = <<>>
    /\ \E r \in {TickAll(streams, order, 1, ticks, NoReport(streams), NoCycles(streams), <<>>)} :
           /\ streams' = r.st
           /\ last' = [ op |-> "tick", arg |-> ticks, target |-> "", pre |-> streams,
                        produced |-> r.produced, cycles |-> r.cycles, pulls |-> r.pulls ]
    /\ UNCHANGED <<order, stack, defs>>

-----------------------------------------------------------------------------
(* Factory::solve, one step at a time.  A frame of the call stack is        *)
(*   [s, pc, i, j, changes, k]: the stream of the call, its position        *)
(*   ("enter": before the efficiency test, "loop": at input slot i and      *)
(*   ingredient j, "apply": at pending change k), and its pending changes.  *)

Frame(s) == [s |-> s, pc |-> "enter", i |-> 1, j |-> 1, changes |-> <<>>, k |-> 1]

Top == stack[Len(stack)]

SetTop(f) == [stack EXCEPT ![Len(stack)] = f]

Solving(target) ==
    [ op |-> "solving", arg |-> 0, target |-> target, pre |-> streams,
      produced |-> NoReport(streams), cycles |-> NoCycles(streams), pulls |-> <<>> ]

\* a call `stream.solve()` of the command layer
SolveCall(s) ==
    /\ stack = <<>>
    /\ stack' = <<Frame(s)>>
    /\ last' = Solving(s)
    /\ UNCHANGED <<streams, order, defs>>

\* ((new_mult - f64::EPSILON).ceil() as usize) for new_mult = num / den
CeilMinusEpsilon(num, den) == (num + den - 1) \div den

\* SolveEnter without the efficiency test
SolveEnterAlways ==
    /\ stack # <<>>
    /\ Top.pc = "enter"
    /\ stack' = SetTop([Top EXCEPT !.pc =
           IF Len(streams[Top.s].inputs) > 0 THEN "loop" ELSE "apply"])
    /\ UNCHANGED <<streams, order, last, defs>>

\* let efficiency = stream.efficiency(); if efficiency < 1.0 { for input ... }
SolveEnter ==
    /\ stack # <<>>
    /\ Top.pc = "enter"
    /\ stack' = With(efficiency(streams, Top.s), LAMBDA e :
           SetTop([Top EXCEPT !.pc =
               IF EffLess(e, EffOne) /\ Len(streams[Top.s].inputs) > 0
               THEN "loop" ELSE "apply"]))
    /\ UNCHANGED <<streams, order, last, defs>>

\* PendingChange scaling by the efficiency instead of by its inverse
PendingChangeInverted(st, s, i, j) ==
    LET u        == st[s].inputs[i].stream
        product  == RecipeOf(st, s).inputs[j].product
        optimal  == RateMulInt(optimal_inflow_of(RecipeOf(st, s), product), st[s].mult)
        outflow  == optimal_outflow_of(RecipeOf(st, u), product)
        rate     == RateMulInt(outflow, st[u].mult)
    IN  IF ~RateIsZero(optimal) /\ ~RateIsZero(outflow) /\ RateLess(rate, optimal)
        THEN << <<u, CeilMinusEpsilon(st[u].mult * rate.amount * optimal.ticks,
                                      rate.ticks * optimal.amount)>> >>
        ELSE <<>>

\* the pending change the body records for (input slot i, ingredient j), if any
PendingChange(st, s, i, j) ==
    LET u        == st[s].inputs[i].stream
        product  == RecipeOf(st, s).inputs[j].product
        optimal  == RateMulInt(optimal_inflow_of(RecipeOf(st, s), product), st[s].mult)
        outflow  == optimal_outflow_of(RecipeOf(st, u), product)
        rate     == RateMulInt(outflow, st[u].mult)
    IN  IF ~RateIsZero(optimal) /\ ~RateIsZero(outflow) /\ RateLess(rate, optimal)
        THEN << <<u, CeilMinusEpsilon(st[u].mult * optimal.amount * rate.ticks,
                                      optimal.ticks * rate.amount)>> >>
        ELSE <<>>

\* whether the body recurses into the input of slot i for ingredient j
Recurses(st, s, i, j) ==
    LET u        == st[s].inputs[i].stream
        product  == RecipeOf(st, s).inputs[j].product
        optimal  == RateMulInt(optimal_inflow_of(RecipeOf(st, s), product), st[s].mult)
    IN  /\ ~RateIsZero(optimal)
        /\ rate_of(st, u, product).some
        /\ RateLess(rate_of(st, u, product).rate, optimal)

\* the position after (i, j) in the nested loops, or "apply" after the last
Advance(f, nIn, nIng) ==
    IF f.j < nIng THEN [f EXCEPT !.j = f.j + 1]
    ELSE IF f.i < nIn THEN [f EXCEPT !.i = f.i + 1, !.j = 1]
    ELSE [f EXCEPT !.pc = "apply"]

\* one pass of the body of the nested loops
SolveBody ==
    /\ stack # <<>>
    /\ Top.pc = "loop"
    /\ LET s   == Top.s
           f   == Advance([Top EXCEPT !.changes = @ \o PendingChange(streams, s, Top.i, Top.j)],
                          Len(streams[s].inputs), Len(RecipeOf(streams, s).inputs))
       IN  stack' = IF Recurses(streams, s, Top.i, Top.j)
                    THEN Append(SetTop(f), Frame(streams[s].inputs[Top.i].stream))
                    ELSE SetTop(f)
    /\ UNCHANGED <<streams, order, last, defs>>

\* ApplyChange scaling the stock of the buffers along with their capacity
ApplyChangeScalingStock(stream, mult) ==
    LET old_mult  == stream.mult
        mult_mult == mult \div old_mult
    IN  [stream EXCEPT !.buffers = [p \in DOMAIN @ |->
                           [@[p] EXCEPT !.max = @ * mult_mult, !.current = @ * mult_mult]],
                       !.mult = mult]

\* applying one pending change: scale the buffers, store the multiplier
ApplyChange(stream, mult) ==
    LET old_mult  == stream.mult
        mult_mult == mult \div old_mult
    IN  [stream EXCEPT !.buffers = [p \in DOMAIN @ |-> [@[p] EXCEPT !.max = @ * mult_mult]],
                       !.mult = mult]

\* for (stream, mult) in changes { ...; self.solve(stream.clone()); }
SolveApply ==
    /\ stack # <<>>
    /\ Top.pc = "apply"
    /\ Top.k <= Len(Top.changes)
    /\ LET u    == Top.changes[Top.k][1]
           mult == Top.changes[Top.k][2]
       IN  /\ streams' = [streams EXCEPT ![u] = ApplyChange(@, mult)]
           /\ stack' = Append(SetTop([Top EXCEPT !.k = @ + 1]), Frame(u))
    /\ UNCHANGED <<order, last, defs>>

\* SolveReturn starting the call over instead of returning
SolveReturnRestarting ==
    /\ stack # <<>>
    /\ Top.pc = "apply"
    /\ Top.k > Len(Top.changes)
    /\ stack' = SetTop(Frame(Top.s))
    /\ UNCHANGED <<streams, order, last, defs>>

\* the end of a call
SolveReturn ==
    /\ stack # <<>>
    /\ Top.pc = "apply"
    /\ Top.k > Len(Top.changes)
    /\ stack' = SubSeq(stack, 1, Len(stack) - 1)
    /\ last' = IF Len(stack) = 1 THEN [last EXCEPT !.op = "solve"] ELSE last
    /\ UNCHANGED <<streams, order, defs>>

-----------------------------------------------------------------------------
(* Registration: Factory::add_mod / add_factory and the register_* methods. *)
(* A definition of the parsed source (Expr) is                              *)
(*   [kind, name, def, args, mult]: a product `name`; a recipe `name` with  *)
(*   the inputs, outputs and period of Recipes[def]; or the assignment      *)
(*   name = def(args) * mult, where def and args are identifiers.           *)
(* The factory is the record [products, recipes, streams].                  *)

\* the orders a HashMap of the keys S can iterate in
Perms(S) ==
    {f \in [1..Cardinality(S) -> S] : \A i, j \in 1..Cardinality(S) : f[i] = f[j] => i = j}

ProductExpr(name) ==
    [kind |-> "product", name |-> name, def |-> "", args |-> <<>>, mult |-> 1]

RecipeExpr(name, def) ==
    [kind |-> "recipe", name |-> name, def |-> def, args |-> <<>>, mult |-> 1]

AssignExpr(name, recipe, args, mult) ==
    [kind |-> "stream", name |-> name, def |-> recipe, args |-> args, mult |-> mult]

\* Result<(), FactoryError>
Ok == [error |-> "", name |-> ""]

Err(error, name) == [error |-> error, name |-> name]

\* HashMap::insert of a new key
Insert(map, key, value) ==
    [k \in DOMAIN map \cup {key} |-> IF k = key THEN value ELSE map[k]]

\* Factory::register_product
register_product(fac, name) ==
    IF name \notin DOMAIN fac.products
    THEN [ fac    |-> [fac EXCEPT !.products = Insert(@, name, Cardinality(DOMAIN @))],
           result |-> Ok ]
    ELSE [fac |-> fac, result |-> Err("Exists", name)]

\* Factory::register_recipe
register_recipe(fac, name, def) ==
    IF name \notin DOMAIN fac.recipes
    THEN [fac |-> [fac EXCEPT !.recipes = Insert(@, name, def)], result |-> Ok]
    ELSE [fac |-> fac, result |-> Err("Exists", name)]

\* parse_call without the test of the number of arguments
ParseCallUnchecked(fac, recipe, args) ==
    LET def   == fac.recipes[recipe]
        slots == Recipes[def].inputs
        n     == IF Len(args) < Len(slots) THEN Len(args) ELSE Len(slots)
    IN  IF \E i \in 1..n : args[i] \notin DOMAIN fac.streams
        THEN [result |-> Err("TypeError", ""), stream |-> parse_call(def, <<>>)]
        ELSE [ result |-> Ok,
               stream |-> parse_call(def,
                              [i \in 1..n |-> Bind(slots[i].product, args[i])]) ]

\* Factory::parse_call on the call recipe(args): the number of arguments is
\* tested first, then every argument has to be a stream
ParseCall(fac, recipe, args) ==
    LET def   == fac.recipes[recipe]
        slots == Recipes[def].inputs
    IN  IF Len(args) # Len(slots)
        THEN [result |-> Err("InvalidArguments", ""), stream |-> parse_call(def, <<>>)]
        ELSE IF \E i \in 1..Len(args) : args[i] \notin DOMAIN fac.streams
        THEN [result |-> Err("TypeError", ""), stream |-> parse_call(def, <<>>)]
        ELSE [ result |-> Ok,
               stream |-> parse_call(def,
                              [i \in 1..Len(args) |-> Bind(slots[i].product, args[i])]) ]

\* Factory::register_stream
register_stream(fac, name, recipe, args, mult) ==
    IF name \notin DOMAIN fac.streams
    THEN LET call == ParseCall(fac, recipe, args)
         IN  IF call.result = Ok
             THEN [ fac    |-> [fac EXCEPT !.streams =
                                   Insert(@, name, [call.stream EXCEPT !.mult = mult])],
                    result |-> Ok ]
             ELSE [fac |-> fac, result |-> call.result]
    ELSE [fac |-> fac, result |-> Err("Exists", name)]

\* whether processing `expr` panics: an identifier that is evaluated and does
\* not resolve ("Undefined identifier"), or a call of something that is not a
\* recipe.  Identifiers resolve as streams, then recipes, then products.
Panics(fac, expr) ==
    LET parts == Recipes[expr.def].inputs \o Recipes[expr.def].outputs
        known == DOMAIN fac.streams \cup DOMAIN fac.recipes \cup DOMAIN fac.products
    IN  CASE expr.kind = "product" -> FALSE
          [] expr.kind = "recipe"  ->
                /\ expr.name \notin DOMAIN fac.recipes
                /\ \E i \in 1..Len(parts) : parts[i].product \notin DOMAIN fac.products
          [] expr.kind = "stream"  ->
                /\ expr.name \notin DOMAIN fac.streams
                /\ \/ expr.def \in DOMAIN fac.streams
                   \/ expr.def \notin DOMAIN fac.recipes
                   \/ \E i \in 1..Len(expr.args) : expr.args[i] \notin known

\* Factory::process_expr on one definition
process_expr(fac, expr) ==
    IF Panics(fac, expr) THEN [fac |-> fac, result |-> Err("panic", expr.name)]
    ELSE CASE expr.kind = "product" -> register_product(fac, expr.name)
           [] expr.kind = "recipe"  -> register_recipe(fac, expr.name, expr.def)
           [] expr.kind = "stream"  ->
                  register_stream(fac, expr.name, expr.def, expr.args, expr.mult)

\* for expr in ast { self.process_expr(expr, ...)?; }: the first error ends
\* the loop.  done counts the definitions processed without error,
\* registered is the log of the stream names in the order they were inserted.
RECURSIVE ProcessAll(_, _, _, _)
ProcessAll(fac, ast, i, registered) ==
    IF i > Len(ast)
    THEN [fac |-> fac, result |-> Ok, done |-> i - 1, registered |-> registered]
    ELSE With(process_expr(fac, ast[i]), LAMBDA r :
         IF r.result # Ok
         THEN [fac |-> fac, result |-> r.result, done |-> i - 1, registered |-> registered]
         ELSE With(IF DOMAIN r.fac.streams # DOMAIN fac.streams
                   THEN Append(registered, ast[i].name) ELSE registered,
                   LAMBDA log : ProcessAll(r.fac, ast, i + 1, log)))

IsProduct(expr) == expr.kind = "product"

IsOther(expr) == expr.kind # "product"

IsUserExpr(expr) == expr.kind = "stream"

\* the sort of add_mod: products first.  (sort_unstable_by does not promise
\* the order of equal elements; slices this short are insertion-sorted,
\* which keeps it.)
SortProductsFirst(ast) == SelectSeq(ast, IsProduct) \o SelectSeq(ast, IsOther)

\* Factory::process_user_expr skips the products and the recipes
UserExprs(ast) == SelectSeq(ast, IsUserExpr)

Fac == [products |-> products, recipes |-> recipes, streams |-> streams]

\* the registry after the definitions `ast` were processed in this order
Registering(op, ast) ==
    /\ stack = <<>>
    /\ \E r \in {ProcessAll(Fac, ast, 1, reg.registered)} :
          /\ r.result.error # "panic"
          /\ products' = r.fac.products
          /\ recipes' = r.fac.recipes
          /\ streams' = r.fac.streams
          /\ order' \in IF DOMAIN r.fac.streams = DOMAIN streams THEN {order}
                        ELSE Perms(DOMAIN r.fac.streams)
          /\ reg' = [ registered |-> r.registered, op |-> op, ast |-> ast,
                      result |-> r.result, done |-> r.done, pre |-> Fac ]
    /\ UNCHANGED <<stack, last>>

\* Factory::add_mod
AddMod(ast) == Registering("add_mod", SortProductsFirst(ast))

\* Factory::add_factory
AddFactory(ast) == Registering("add_factory", UserExprs(ast))

\* reg before any batch, with the streams registered in the order `registered`
NoBatch(registered, fac) ==
    [ registered |-> registered, op |-> "new", ast |-> <<>>,
      result |-> Ok, done |-> 0, pre |-> fac ]

-----------------------------------------------------------------------------
(* The graphs the stream registry is built with *)

Pair ==
    [ U |-> [recipe |-> "mineA",  inputs |-> <<>>],
      S |-> [recipe |-> "mkB",    inputs |-> <<Bind("A", "U")>>] ]

Pair2 ==
    [ U |-> [recipe |-> "mineA2", inputs |-> <<>>],
      S |-> [recipe |-> "mkB",    inputs |-> <<Bind("A", "U")>>] ]

\* a single leaf stream
Solo ==
    [ U |-> [recipe |-> "mineA",  inputs |-> <<>>] ]

Quick ==
    [ U |-> [recipe |-> "quickA", inputs |-> <<>>] ]

\* one upstream bound to both input slots of the consumer
Multi ==
    [ U |-> [recipe |-> "mineAB", inputs |-> <<>>],
      S |-> [recipe |-> "mkC5",   inputs |-> <<Bind("A", "U"), Bind("B", "U")>>] ]

\* a leaf that is a direct input of S and also upstream of S's other input
Diamond ==
    [ U |-> [recipe |-> "mineA",  inputs |-> <<>>],
      V |-> [recipe |-> "mkB",    inputs |-> <<Bind("A", "U")>>],
      S |-> [recipe |-> "mkC",    inputs |-> <<Bind("A", "U"), Bind("B", "V")>>] ]

\* an input slot bound to a stream that does not produce the slot's product
Miswired ==
    [ U |-> [recipe |-> "mineA",  inputs |-> <<>>],
      S |-> [recipe |-> "mkD",    inputs |-> <<Bind("B", "U")>>] ]

\* a consumer with a period of two ticks fed by a leaf with a period of four
Rapid ==
    [ U |-> [recipe |-> "mineA",  inputs |-> <<>>],
      S |-> [recipe |-> "quickB", inputs |-> <<Bind("A", "U")>>] ]

\* Diamond with the slots of S in the other order: the slot of V, which is
\* fed by U, comes before the slot of U
Crossed ==
    [ U |-> [recipe |-> "mineA",  inputs |-> <<>>],
      V |-> [recipe |-> "mkB",    inputs |-> <<Bind("A", "U")>>],
      S |-> [recipe |-> "mkCr",   inputs |-> <<Bind("B", "V"), Bind("A", "U")>>] ]

\* a leaf with a period of one tick
Fast ==
    [ U |-> [recipe |-> "fastA",  inputs |-> <<>>] ]

\* a consumer whose recipe lists its input as `A * 0`
Zero ==
    [ U |-> [recipe |-> "mineA",  inputs |-> <<>>],
      S |-> [recipe |-> "mkD0",   inputs |-> <<Bind("A", "U")>>] ]

\* the definitions the registry is built from: a wiring and the multiplier
\* written on each stream (`recipe(...) * mult`)
Setups ==
    { [graph |-> Pair,     mult |-> [U |-> 1, S |-> 1]],
      [graph |-> Pair,     mult |-> [U |-> 1, S |-> 2]],
      [graph |-> Solo,     mult |-> [U |-> 9]],
      [graph |-> Quick,    mult |-> [U |-> 1]],
      [graph |-> Quick,    mult |-> [U |-> 3]],
      [graph |-> Pair2,    mult |-> [U |-> 1, S |-> 1]],
      [graph |-> Multi,    mult |-> [U |-> 1, S |-> 1]],
      [graph |-> Multi,    mult |-> [U |-> 3, S |-> 1]],
      [graph |-> Diamond,  mult |-> [U |-> 1, V |-> 2, S |-> 1]],
      [graph |-> Miswired, mult |-> [U |-> 1, S |-> 1]] }

\* further definitions a registry is built from
MoreSetups ==
    { [graph |-> Rapid,    mult |-> [U |-> 1, S |-> 1]],
      [graph |-> Rapid,    mult |-> [U |-> 2, S |-> 1]],
      [graph |-> Pair,     mult |-> [U |-> 3, S |-> 2]],
      [graph |-> Zero,     mult |-> [U |-> 1, S |-> 1]],
      [graph |-> Crossed,  mult |-> [U |-> 1, V |-> 2, S |-> 1]],
      [graph |-> Fast,     mult |-> [U |-> 1]] }

NoOp(st) == [ op |-> "init", arg |-> 0, target |-> "", pre |-> st,
              produced |-> NoReport(st), cycles |-> NoCycles(st), pulls |-> <<>> ]

\* the two-stream and one-stream wirings
SmallSetups == {setup \in Setups : Cardinality(DOMAIN setup.graph) <= 2}

\* the orders the streams of `graph` can have been registered in: a stream
\* is registered after the streams its definition names
RegistrationOrders(graph) ==
    {f \in Perms(DOMAIN graph) :
        \A i \in 1..Len(f) : \A k \in 1..Len(graph[f[i]].inputs) :
            \E j \in 1..(i - 1) : f[j] = graph[f[i]].inputs[k].stream}

\* every product of the model registered
AllProducts == ("A" :> 0) @@ ("B" :> 1) @@ ("C" :> 2)

\* every recipe of the model registered under its own name
AllRecipes == [r \in DOMAIN Recipes |-> r]

\* the state after the registry is built from one of `setups`
Built(setups) ==
    \E setup \in setups :
        /\ streams = [s \in DOMAIN setup.graph |->
                         stream_from_expr(setup.graph[s].recipe, setup.graph[s].inputs,
                                          setup.mult[s])]
        /\ order \in Perms(DOMAIN setup.graph)
        /\ stack = <<>>
        /\ last = NoOp(streams)
        /\ products = AllProducts
        /\ recipes = AllRecipes
        /\ \E f \in RegistrationOrders(setup.graph) :
               reg = NoBatch(f, [products |-> products, recipes |-> recipes,
                                 streams |-> streams])

Init == Built(Setups)

InitSmall == Built(SmallSetups)

TickNext == \E ticks \in 1..MaxTicks : Tick(ticks)

\* tick calls only, on every wiring
SpecTick == Init /\ [][TickNext]_vars

InitMore == Built(Setups \cup MoreSetups)

\* tick calls only, on the further wirings as well
SpecTickMore == InitMore /\ [][TickNext]_vars

Next ==
    \/ \E ticks \in 1..MaxTicks : Tick(ticks)
    \/ \E s \in DOMAIN streams : SolveCall(s)
    \/ SolveEnter
    \/ SolveBody
    \/ SolveApply
    \/ SolveReturn

\* ticks and solve calls in any order, on the one- and two-stream wirings
Spec == InitSmall /\ [][Next]_vars

\* Factory::call, method "buffer" of a stream: stream.buffer(product, value)
\* sets the max of the stream's buffer of that product; the call panics on
\* the unwrap when the stream has no such buffer
SetBuffer(s, product, value) ==
    /\ stack = <<>>
    /\ HasBuffer(streams[s], product)
    /\ streams' = [streams EXCEPT ![s].buffers[product].max = value]
    /\ last' = [NoOp(streams) EXCEPT !.op = "buffer", !.target = s, !.arg = value]
    /\ UNCHANGED <<order, stack, defs>>

\* no buffer holds more than MaxHeld units
LowStock ==
    \A s \in DOMAIN streams : \A p \in DOMAIN streams[s].buffers :
        streams[s].buffers[p].current <= MaxHeld

CommandNext ==
    \/ \E ticks \in 1..MaxTicks : LowStock /\ Tick(ticks)
    \/ \E s \in DOMAIN streams : SolveCall(s)
    \/ SolveEnter
    \/ SolveBody
    \/ SolveApply
    \/ SolveReturn
    \/ \E s \in DOMAIN streams, product \in DOMAIN products, value \in 0..MaxCapacity :
           SetBuffer(s, product, value)

\* the wirings the buffer command is tried on
CommandSetups ==
    { [graph |-> Pair,     mult |-> [U |-> 1, S |-> 1]],
      [graph |-> Quick,    mult |-> [U |-> 1]] }

InitCommands == Built(CommandSetups)

\* ticks, solve calls and buffer commands in any order
SpecCommands == InitCommands /\ [][CommandNext]_vars

\* the definitions the batches are made of: two products, the recipe names
\* mineA (defined twice, differently) and mkB, the stream names U (defined
\* twice, differently) and S (with one, no, two and a non-stream argument)
Exprs ==
    { ProductExpr("A"), ProductExpr("B"),
      RecipeExpr("mineA", "mineA"), RecipeExpr("mineA", "quickA"), RecipeExpr("mkB", "mkB"),
      AssignExpr("U", "mineA", <<>>, 1), AssignExpr("U", "mineA", <<>>, 3),
      AssignExpr("S", "mkB", <<"U">>, 1), AssignExpr("S", "mkB", <<>>, 1),
      AssignExpr("S", "mkB", <<"U", "U">>, 2), AssignExpr("S", "mkB", <<"A">>, 1) }

\* the definitions that also come in batches of more than one: all but the
\* second definitions of mineA and U and the stream with a product argument
ExprsOfBatches ==
    Exprs \ { RecipeExpr("mineA", "quickA"), AssignExpr("U", "mineA", <<>>, 3),
              AssignExpr("S", "mkB", <<"A">>, 1) }

\* a batch is one definition, or up to MaxBatch of the definitions above
Batches == {<<e>> : e \in Exprs} \cup UNION {[1..n -> ExprsOfBatches] : n \in 2..MaxBatch}

NoStreams == [s \in {} |-> s]

\* Factory::new
InitNew ==
    /\ streams = NoStreams
    /\ order = <<>>
    /\ stack = <<>>
    /\ last = NoOp(streams)
    /\ products = NoStreams
    /\ recipes = NoStreams
    /\ reg = NoBatch(<<>>, [products |-> products, recipes |-> recipes,
                            streams |-> streams])

RegisterNext ==
    \/ \E ast \in Batches : AddMod(ast)
    \/ \E ast \in Batches : AddFactory(ast)

\* batches of definitions given to a new factory
SpecRegister == InitNew /\ [][RegisterNext]_vars

\* one stream S on its own, of any of three recipes, with any multiplier up
\* to MaxMult and any stock up to MaxStock in each buffer; an input buffer
\* may not exist yet (it is created by the first pull)
InitProduce ==
    \E recipe \in {"mkB", "mkC", "mineAB"}, mult \in 1..MaxMult :
        LET ins  == {Recipes[recipe].inputs[i].product : i \in 1..Len(Recipes[recipe].inputs)}
            outs == {Recipes[recipe].outputs[i].product : i \in 1..Len(Recipes[recipe].outputs)}
            own  == stream_from_expr(recipe, <<>>, mult)
        IN  \E held \in SUBSET ins, stock \in [ins \cup outs -> 0..MaxStock] :
                /\ streams = [s \in {"S"} |-> [own EXCEPT !.buffers =
                       [p \in held \cup outs |->
                           IF p \in outs THEN [own.buffers[p] EXCEPT !.current = stock[p]]
                           ELSE Buffer(stock[p], required_of(Recipes[recipe], p)
                                                    * DEFAULT_BUF_MULT * mult)]]]
                /\ \A p \in ins \ held : stock[p] = 0
                /\ order = <<"S">>
                /\ stack = <<>>
                /\ last = NoOp(streams)
                /\ products = AllProducts
                /\ recipes = AllRecipes
                /\ reg = NoBatch(<<"S">>, [products |-> products, recipes |-> recipes,
                                           streams |-> streams])

\* stream.borrow_mut().try_produce(), on its own
Produce(s) ==
    /\ stack = <<>>
    /\ \E tp \in {try_produce(streams[s])} :
          /\ streams' = [streams EXCEPT ![s] = tp.stream]
          /\ last' = [NoOp(streams) EXCEPT !.op = "try_produce", !.target = s,
                                          !.arg = IF tp.ok THEN 1 ELSE 0]
    /\ UNCHANGED <<order, stack, defs>>

ProduceNext == \E s \in DOMAIN streams : Produce(s)

\* production attempts on one stream, from any stock
SpecProduce == InitProduce /\ [][ProduceNext]_vars

SolveNext ==
    \/ \E s \in DOMAIN streams : SolveCall(s)
    \/ SolveEnter
    \/ SolveBody
    \/ SolveApply
    \/ SolveReturn

\* solve calls only, on every wiring
SpecSolve == Init /\ [][SolveNext]_vars

\* solve calls only, on the further wirings as well
SpecSolveMore == InitMore /\ [][SolveNext]_vars

\* every wiring of the model
Graphs == {Pair, Pair2, Solo, Quick, Multi, Diamond, Miswired, Rapid, Zero, Crossed, Fast}

\* every wiring with every multiplier from 1 to MaxMult written on each stream
AnyMultSetups ==
    UNION {{[graph |-> g, mult |-> m] : m \in [DOMAIN g -> 1..MaxMult]} : g \in Graphs}

InitAnyMult == Built(AnyMultSetups)

\* solve calls on every wiring with every multiplier; a call that can take a
\* step takes it
SpecSolveAny == InitAnyMult /\ [][SolveNext]_vars /\ WF_vars(SolveNext)

\* solve applied again and again to one stream (the first one it is called on)
RepeatNext ==
    \/ \E s \in DOMAIN streams : (last.op = "init" \/ last.target = s) /\ SolveCall(s)
    \/ SolveEnter
    \/ SolveBody
    \/ SolveApply
    \/ SolveReturn

\* every call runs to completion and the next call follows
SpecRepeat == Init /\ [][RepeatNext]_vars /\ WF_vars(RepeatNext)

-----------------------------------------------------------------------------
(* Properties *)

Min(a, b) == IF a < b THEN a ELSE b

BuffersOf(st) == {b \in (DOMAIN st) \X Products : HasBuffer(st[b[1]], b[2])}

\* C1: after any sequence of tick calls, every buffer of every stream
\* satisfies 0 <= current <= max
C1_BufferInvariant ==
    \A b \in BuffersOf(streams) :
        /\ 0 <= streams[b[1]].buffers[b[2]].current
        /\ streams[b[1]].buffers[b[2]].current <= streams[b[1]].buffers[b[2]].max

\* a tick that pulled units into an input buffer and left some buffer full
C1_Witness ==
    /\ last.op = "tick"
    /\ \E i \in 1..Len(last.pulls) : last.pulls[i].own2 > last.pulls[i].own
    /\ \E b \in BuffersOf(streams) :
          /\ streams[b[1]].buffers[b[2]].max > 0
          /\ streams[b[1]].buffers[b[2]].current = streams[b[1]].buffers[b[2]].max

\* the units one input pull had to move
Moved(r) == Min(r.source, r.max - r.own)

\* C2: every input pull of a tick moves exactly
\* min(source.current, dest.max - dest.current) units: the source loses what
\* the destination gains and their sum is unchanged, also when the
\* destination buffer was created by this pull
C2_LosslessTransfer ==
    \A i \in 1..Len(last.pulls) :
        LET r == last.pulls[i]
        IN  /\ r.source2 = r.source - Moved(r)
            /\ r.own2 = r.own + Moved(r)
            /\ r.source2 + r.own2 = r.source + r.own
            /\ r.fresh => r.own = 0

\* a tick with a pull that the room of the destination cut short
C2_Witness ==
    /\ last.op = "tick"
    /\ \E i \in 1..Len(last.pulls) :
          /\ 0 < Moved(last.pulls[i])
          /\ Moved(last.pulls[i]) < last.pulls[i].source
          /\ last.pulls[i].own2 = last.pulls[i].max

\* a registry of one leaf stream that has not been ticked yet
FreshLeaf(st) ==
    /\ Cardinality(DOMAIN st) = 1
    /\ \A s \in DOMAIN st :
          /\ st[s].inputs = <<>>
          /\ st[s].next = None
          /\ \A p \in DOMAIN st[s].buffers : st[s].buffers[p].current = 0

\* C8: on a fresh leaf stream with any multiplier, tick(p) adds exactly one
\* cycle's yield amount * mult to the output buffer, and tick(k * p) adds k
\* cycles' yield, capped only by the buffer's headroom
C8_CycleAccounting ==
    (last.op = "tick" /\ FreshLeaf(last.pre)) =>
        \A s \in DOMAIN streams :
            LET recipe == RecipeOf(streams, s)
                period == recipe.rate.ticks
                k      == last.arg \div period
            IN  (last.arg % period = 0) =>
                    \A i \in 1..Len(recipe.outputs) :
                        LET yield == recipe.outputs[i].amount * streams[s].mult
                            buf   == streams[s].buffers[recipe.outputs[i].product]
                        IN  /\ buf.current = Min(k * yield, buf.max)
                            /\ (k = 1) => buf.current = yield

\* the efficiency before its final clamp to 1.0
RawEfficiency(st, s) == ReduceMin(st, s, 2, EffComponent(st, s, 1))

\* C3: in every reachable graph state the efficiency of every stream lies in
\* [0.0, 1.0], and a stream with no inputs has efficiency exactly 1.0
C3_EfficiencyBound ==
    \A s \in DOMAIN streams :
        LET e == efficiency(streams, s)
        IN  /\ e.den > 0
            /\ 0 <= e.num
            /\ e.num <= e.den
            /\ (streams[s].inputs = <<>>) => e = EffOne

\* after a solve, a stream that is supplied beyond its demand (the clamp acts)
C3_Witness ==
    /\ last.op = "solve"
    /\ last.pre # streams
    /\ \E s \in DOMAIN streams :
          /\ streams[s].inputs # <<>>
          /\ EffLess(EffOne, RawEfficiency(streams, s))

InSolve == last.op \in {"solving", "solve"}

\* C5: a solve(S) called at efficiency(S) >= 1.0 changes no mult and no
\* buffer anywhere in the graph (so a second solve right after one that
\* reached efficiency 1.0 changes nothing)
C5_NoOpAtFullEfficiency ==
    (InSolve /\ ~EffLess(efficiency(last.pre, last.target), EffOne)) => streams = last.pre

\* a completed solve of a fully supplied stream, one of whose inputs is by
\* itself below the demand
C5_Witness ==
    /\ last.op = "solve"
    /\ stack = <<>>
    /\ streams[last.target].inputs # <<>>
    /\ ~EffLess(efficiency(last.pre, last.target), EffOne)
    /\ \E i \in 1..Len(streams[last.target].inputs) :
       \E j \in 1..Len(RecipeOf(streams, last.target).inputs) :
           PendingChange(last.pre, last.target, i, j) # <<>>

\* C6: no step of a solve call decreases the mult of any stream
C6_NeverDecreases ==
    [][\A s \in DOMAIN streams : streams'[s].mult >= streams[s].mult]_vars

\* the streams (transitively) upstream of s
RECURSIVE UpstreamOf(_, _)
UpstreamOf(st, s) ==
    LET direct == {st[s].inputs[i].stream : i \in 1..Len(st[s].inputs)}
    IN  direct \cup UNION {UpstreamOf(st, u) : u \in direct}

\* the leaf producing 1 A per 4 ticks feeding the stream turning 2 A into 3 B
PairScenario(st, multU, multS) ==
    /\ DOMAIN st = {"U", "S"}
    /\ st["U"].recipe = "mineA" /\ st["U"].mult = multU
    /\ st["S"].recipe = "mkB"   /\ st["S"].mult = multS

\* C7: solve(S) changes only the mult and the buffer max of streams upstream
\* of S: never S itself, never a buffer's current, never a stream's next; in
\* the two-stream scenario (U produces 1 A, S needs 2 A per 4 ticks, both
\* mult 1) efficiency(S) is 0.5 and solve(S) sets U.mult to 2
C7_SolveFrame ==
    InSolve =>
        /\ \A s \in DOMAIN streams :
              /\ streams[s].next = last.pre[s].next
              /\ streams[s].inputs = last.pre[s].inputs
              /\ streams[s].recipe = last.pre[s].recipe
              /\ DOMAIN streams[s].buffers = DOMAIN last.pre[s].buffers
              /\ \A p \in DOMAIN streams[s].buffers :
                    streams[s].buffers[p].current = last.pre[s].buffers[p].current
              /\ s \notin UpstreamOf(last.pre, last.target) => streams[s] = last.pre[s]
        /\ (PairScenario(last.pre, 1, 1) /\ last.target = "S") =>
              /\ efficiency(last.pre, "S") = [num |-> 1, den |-> 2]
              /\ last.op = "solve" => streams["U"].mult = 2 /\ streams["S"].mult = 1

\* the scenario's solve(S), completed on a graph that holds stock
C7_Witness ==
    /\ last.op = "solve"
    /\ PairScenario(last.pre, 1, 1)
    /\ last.target = "S"
    /\ streams["U"].mult = 2
    /\ streams["U"].buffers["A"].current > 0
    /\ HasBuffer(streams["S"], "A")

RateEq(r, q) == r.amount * q.ticks = q.amount * r.ticks

\* C10: rate_of(stream, product) is absent exactly when the recipe's optimal
\* outflow of product is zero, and otherwise is outflow * efficiency * mult;
\* a stream turning 2 A into 3 B per 4 ticks fed by a leaf producing 2 A per
\* 4 ticks (both mult 1) has efficiency 1.0 and rate_of(B) = 3 per 4 ticks
C10_RateOf ==
    /\ \A s \in DOMAIN streams : \A p \in Products :
          LET r   == rate_of(streams, s, p)
              out == SumParts(RecipeOf(streams, s).outputs, p, 1)
              e   == efficiency(streams, s)
          IN  /\ r.some <=> out # 0
              /\ r.some => RateEq(r.rate, Rate(out * streams[s].mult * e.num,
                                               RecipeOf(streams, s).rate.ticks * e.den))
    /\ ( /\ DOMAIN streams = {"U", "S"}
         /\ streams["U"].recipe = "mineA2" /\ streams["U"].mult = 1
         /\ streams["S"].recipe = "mkB" /\ streams["S"].mult = 1 ) =>
            /\ efficiency(streams, "S") = EffOne
            /\ rate_of(streams, "S", "B").some
            /\ RateEq(rate_of(streams, "S", "B").rate, Rate(3, 4))

\* the scenario graph, queried after a solve call on it
C10_Witness ==
    /\ DOMAIN streams = {"U", "S"}
    /\ streams["U"].recipe = "mineA2" /\ streams["U"].mult = 1
    /\ streams["S"].recipe = "mkB" /\ streams["S"].mult = 1
    /\ last.op = "solve"
    /\ rate_of(streams, "S", "B").some
    /\ ~rate_of(streams, "S", "A").some

\* a solve has completed and its target runs at efficiency 1.0
Solved == last.op = "solve" /\ efficiency(streams, last.target) = EffOne

\* C4 as stated: on any acyclic graph, repeated application of solve(S)
\* eventually reaches a state where efficiency(S) = 1.0
C4_Convergence == <>Solved

\* every input slot is bound to a stream whose recipe yields the slot's product
WellWired(st) ==
    \A s \in DOMAIN st : \A i \in 1..Len(st[s].inputs) :
        SumParts(RecipeOf(st, st[s].inputs[i].stream).outputs, st[s].inputs[i].product, 1) > 0

\* C4 as amended: on an acyclic graph where every input slot is bound to a
\* stream that produces the slot's product, repeated application of
\* solve(S) eventually reaches a state where efficiency(S) = 1.0
C4_ConvergenceWellWired == WellWired(streams) => <>Solved

\* the second solve(S) on the wiring with U bound to both slots: the first
\* left U at mult 2 and S below full efficiency, the second completes it
C4_Witness ==
    /\ Solved
    /\ last.target = "S"
    /\ streams["U"].recipe = "mineAB"
    /\ last.pre["U"].mult = 2
    /\ EffLess(efficiency(last.pre, "S"), EffOne)

\* the two-stream scenario after solve(S): U at mult 2 with its A buffer
\* scaled to 16, S at mult 1
PostSolve(st) == PairScenario(st, 2, 1) /\ st["U"].buffers["A"].max = 16

TickOfPostSolve == last.op = "tick" /\ last.arg = 4 /\ PostSolve(last.pre)

\* the pulls of A that S made during the last tick
PullsOfS == {i \in 1..Len(last.pulls) : last.pulls[i].stream = "S"}

\* C9 as stated: tick(4) on the post-solve graph yields exactly 3 B at S if
\* U's A buffer held >= 2 units before the call; otherwise S yields 0 B, no
\* buffer of S changes and no A is moved into S's input buffer
C9_TickAfterSolve ==
    TickOfPostSolve =>
        IF last.pre["U"].buffers["A"].current >= 2
        THEN last.produced["S"] = <<3>>
        ELSE /\ last.produced["S"] = <<0>>
             /\ streams["S"].buffers = last.pre["S"].buffers
             /\ \A i \in PullsOfS : last.pulls[i].own2 = last.pulls[i].own

\* the graph at the moment tick visits S: U has been advanced already when
\* it comes first in the iteration order
AtVisitOfS ==
    IF order[1] = "U" THEN TickStream(last.pre, "U", last.arg).st ELSE last.pre

StockOf(stream, product) ==
    IF HasBuffer(stream, product) THEN stream.buffers[product].current ELSE 0

\* whether S can run a cycle when visited: 2 A between U's buffer and its own
\* input buffer, and room for 3 B
CanRunAtVisit ==
    /\ StockOf(AtVisitOfS["U"], "A") + StockOf(AtVisitOfS["S"], "A") >= 2
    /\ AtVisitOfS["S"].buffers["B"].current + 3 <= AtVisitOfS["S"].buffers["B"].max

\* the first pull S made during the last tick
FirstPullOfS == last.pulls[CHOOSE i \in PullsOfS : \A k \in PullsOfS : i <= k]

\* C9 as amended: tick(4) on the post-solve graph yields 3 B at S per cycle
\* it runs (exactly 3 when it counts one cycle boundary) if, at the moment S
\* is visited, U's A buffer and S's own A input buffer together hold >= 2
\* units and S's B buffer has room for 3; otherwise S yields 0 B and its B
\* buffer is unchanged, while the A that U holds is still moved into S's
\* input buffer as far as it fits, without loss
C9_TickAfterSolveAtVisit ==
    TickOfPostSolve =>
        /\ CanRunAtVisit =>
              /\ last.produced["S"][1] >= 3
              /\ last.cycles["S"] = 1 => last.produced["S"] = <<3>>
        /\ ~CanRunAtVisit =>
              /\ last.produced["S"] = <<0>>
              /\ streams["S"].buffers["B"] = last.pre["S"].buffers["B"]
              /\ PullsOfS # {}
              /\ LET p == FirstPullOfS
                 IN  /\ p.source = StockOf(AtVisitOfS["U"], "A")
                     /\ p.own = StockOf(AtVisitOfS["S"], "A")
                     /\ p.own2 = Min(p.own + p.source, p.max)
                     /\ p.source2 = p.source - (p.own2 - p.own)
                     /\ streams["S"].buffers["A"].current = p.own2

\* U held fewer than 2 A before the call, was visited first and produced,
\* and S yielded 3 B from it
C9_Witness ==
    /\ TickOfPostSolve
    /\ last.pre["U"].buffers["A"].current < 2
    /\ order[1] = "U"
    /\ last.produced["S"] = <<3>>

-----------------------------------------------------------------------------
(* Registration properties *)

\* the definition the last batch stopped at
Stopped == reg.ast[reg.done + 1]

\* the number of input slots of the recipe a stream definition names
Slots(expr) == Len(Recipes[recipes[expr.def]].inputs)

\* the names of the stream definitions the last batch processed without error
StreamsDone == {reg.ast[i].name : i \in {k \in 1..reg.done : reg.ast[k].kind = "stream"}}

\* C11: a stream definition whose number of bindings differs from the
\* recipe's number of input slots fails with InvalidArguments (and no other
\* stream definition does); the failed registration adds no stream and
\* changes no existing stream
C11_WrongBindingCount ==
    /\ \A i \in 1..reg.done :
          reg.ast[i].kind = "stream" => Len(reg.ast[i].args) = Slots(reg.ast[i])
    /\ (/\ reg.result # Ok
        /\ Stopped.kind = "stream"
        /\ Stopped.name \notin DOMAIN streams
        /\ Len(Stopped.args) # Slots(Stopped)) => reg.result.error = "InvalidArguments"
    /\ reg.result.error = "InvalidArguments" =>
          /\ Stopped.kind = "stream"
          /\ Len(Stopped.args) # Slots(Stopped)
          /\ Stopped.name \notin DOMAIN streams
          /\ DOMAIN streams = DOMAIN reg.pre.streams \cup StreamsDone
          /\ \A s \in DOMAIN reg.pre.streams : streams[s] = reg.pre.streams[s]

\* a stream definition with two bindings for a one-slot recipe, refused by a
\* factory that holds the stream U, after another definition of the batch
C11_Witness ==
    /\ reg.result.error = "InvalidArguments"
    /\ reg.done = 1
    /\ Len(Stopped.args) = 2
    /\ "U" \in DOMAIN reg.pre.streams

\* the registry (of the factory fac) a definition of this kind goes to
RegistryOf(fac, kind) ==
    CASE kind = "product" -> fac.products
      [] kind = "recipe"  -> fac.recipes
      [] kind = "stream"  -> fac.streams

\* the positions of the last batch, before the one it stopped at, that
\* registered the name and kind of the definition it stopped at
Earlier == {i \in 1..reg.done : reg.ast[i].kind = Stopped.kind /\ reg.ast[i].name = Stopped.name}

\* whether the registry holds, under its name, what `expr` defines
Holds(fac, expr) ==
    /\ expr.name \in DOMAIN RegistryOf(fac, expr.kind)
    /\ expr.kind = "recipe" => fac.recipes[expr.name] = expr.def
    /\ expr.kind = "stream" =>
          /\ fac.streams[expr.name].mult = expr.mult
          /\ fac.streams[expr.name].recipe = fac.recipes[expr.def]

\* C12: registering a name already registered in the same kind fails with
\* Exists naming it and leaves the earlier definition unchanged; the
\* definitions before it in the batch remain, and the definitions after it
\* in the batch (here: its products, and its recipes over registered
\* products) are still registered
C12_DuplicateAbortsOne ==
    reg.result.error = "Exists" =>
        /\ reg.result.name = Stopped.name
        /\ IF Earlier = {}
           THEN /\ Stopped.name \in DOMAIN RegistryOf(reg.pre, Stopped.kind)
                /\ RegistryOf(Fac, Stopped.kind)[Stopped.name]
                      = RegistryOf(reg.pre, Stopped.kind)[Stopped.name]
           ELSE \E i \in Earlier : Holds(Fac, reg.ast[i])
        /\ \A i \in 1..reg.done :
              reg.ast[i].name \in DOMAIN RegistryOf(Fac, reg.ast[i].kind)
        /\ \A j \in (reg.done + 2)..Len(reg.ast) :
              \/ reg.ast[j].kind = "stream"
              \/ /\ reg.ast[j].kind = "recipe"
                 /\ \E p \in {"A", "B"} : p \notin DOMAIN products
              \/ reg.ast[j].name \in DOMAIN RegistryOf(Fac, reg.ast[j].kind)

\* C13: one tick(n) advances every registered stream once, in the order the
\* streams were registered in, so the buffers after the call are those of
\* visiting the streams of the prior state in registration order
C13_RegistrationOrderVisit ==
    last.op = "tick" =>
        streams = TickAll(last.pre, reg.registered, 1, last.arg,
                          NoReport(last.pre), NoCycles(last.pre), <<>>).st

-----------------------------------------------------------------------------
(* Production properties *)

\* the products of the parts of a recipe side
ProductsOf(parts) == {parts[i].product : i \in 1..Len(parts)}

\* C14: try_produce succeeds exactly when every input buffer holds
\* amount * mult units and every output buffer has amount * mult free; on
\* success every input buffer falls and every output buffer rises by exactly
\* amount * mult; on failure no buffer of the stream changes
C14_AllOrNothing ==
    last.op = "try_produce" =>
        LET s      == last.target
            pre    == last.pre[s]
            post   == streams[s]
            recipe == RecipeOf(last.pre, s)
            able   == /\ \A p \in ProductsOf(recipe.inputs) :
                            /\ HasBuffer(pre, p)
                            /\ pre.buffers[p].current >= SumParts(recipe.inputs, p, 1) * pre.mult
                      /\ \A p \in ProductsOf(recipe.outputs) :
                            /\ HasBuffer(pre, p)
                            /\ pre.buffers[p].max - pre.buffers[p].current
                                  >= SumParts(recipe.outputs, p, 1) * pre.mult
        IN  /\ (last.arg = 1) <=> able
            /\ last.arg = 1 =>
                  /\ DOMAIN post.buffers = DOMAIN pre.buffers
                  /\ \A p \in DOMAIN pre.buffers :
                        /\ post.buffers[p].max = pre.buffers[p].max
                        /\ post.buffers[p].current = pre.buffers[p].current
                              - SumParts(recipe.inputs, p, 1) * pre.mult
                              + SumParts(recipe.outputs, p, 1) * pre.mult
            /\ last.arg = 0 => post = pre
            /\ post.mult = pre.mult /\ post.next = pre.next /\ post.inputs = pre.inputs

\* a production of the two-input recipe at mult 2 that left no room for another
C14_Witness ==
    /\ last.op = "try_produce"
    /\ last.arg = 1
    /\ streams["S"].recipe = "mkC"
    /\ streams["S"].mult = 2
    /\ streams["S"].buffers["C"].current = streams["S"].buffers["C"].max

\* the successful productions of stream s in the last tick call
DoneOf(s) ==
    LET outs == RecipeOf(last.pre, s).outputs
    IN  last.produced[s][1] \div (outs[1].amount * last.pre[s].mult)

\* the input pulls of stream s in the last tick call
PullsOf(s) == Cardinality({k \in 1..Len(last.pulls) : last.pulls[k].stream = s})

\* the input slots of s whose bound stream holds a buffer of the slot's product
Pullable(s) ==
    Cardinality({i \in 1..Len(last.pre[s].inputs) :
                    HasBuffer(last.pre[last.pre[s].inputs[i].stream],
                              last.pre[s].inputs[i].product)})

\* the countdown of s before the last call
NextBefore(s) ==
    IF last.pre[s].next = None THEN RecipeOf(last.pre, s).rate.ticks ELSE last.pre[s].next

\* C15: in one tick call a stream pulls its inputs once per successful
\* production and once more for the production that failed, and never after
\* it; the cycles and the countdown of a call are those of its own elapsed
\* ticks, whether or not cycles were abandoned
C15_AbandonAfterFailure ==
    last.op = "tick" =>
        \A s \in DOMAIN streams :
            LET d == Decompose(last.arg, 0, NextBefore(s), RecipeOf(last.pre, s).rate.ticks)
            IN  /\ DoneOf(s) <= last.cycles[s]
                /\ PullsOf(s) = Pullable(s) * (IF DoneOf(s) < last.cycles[s]
                                               THEN DoneOf(s) + 1 ELSE last.cycles[s])
                /\ last.cycles[s] = d.cycles
                /\ streams[s].next = d.next

\* a call of two elapsed cycles for a consumer whose first production failed
C15_Witness ==
    /\ last.op = "tick"
    /\ "S" \in DOMAIN streams
    /\ Len(streams["S"].inputs) > 0
    /\ last.cycles["S"] = 2
    /\ DoneOf("S") = 0
    /\ PullsOf("S") = 1

-----------------------------------------------------------------------------
(* Capacity properties *)

\* C16: between calls, whatever ticks, solve calls and buffer commands came
\* before, no buffer holds more than its max
C16_CapacityInvariant ==
    stack = <<>> =>
        \A s \in DOMAIN streams : \A p \in DOMAIN streams[s].buffers :
            ~(streams[s].buffers[p].current > streams[s].buffers[p].max)

-----------------------------------------------------------------------------
(* Countdown properties *)

\* stream s produced in every cycle counted for it by the call reported in r
NoStall(r, s) ==
    \A i \in 1..Len(RecipeOf(r.pre, s).outputs) :
        r.produced[s][i] = r.cycles[s] * RecipeOf(r.pre, s).outputs[i].amount * r.pre[s].mult

\* the second of two tick calls on a fresh leaf stream that never stalled
\* leaves the cycles and the countdown of the ticks of both calls together
SecondTickExact ==
    (/\ last.op = "tick" /\ FreshLeaf(last.pre)
     /\ last'.op = "tick" /\ last'.pre = streams) =>
        \A s \in DOMAIN streams :
            LET p   == RecipeOf(streams, s).rate.ticks
                sum == last.arg + last'.arg
            IN  (NoStall(last, s) /\ NoStall(last', s)) =>
                    /\ last.cycles[s] + last'.cycles[s] = sum \div p
                    /\ streams'[s].next = p - (sum % p)

\* C17: for a fresh stream of period p that never stalls, the calls tick(n1),
\* tick(n2) count floor((n1 + n2) / p) cycle boundaries and leave
\* next = p - ((n1 + n2) mod p)
C17_ExactCountdown == [][SecondTickExact]_vars

-----------------------------------------------------------------------------
(* Rescaling properties *)

\* a step that raises (or keeps) the multiplier of a stream scales the max of
\* each of its buffers by new_mult / old_mult, to the nearest unit below or
\* above, and leaves each current alone
RescaledByRatio ==
    \A u \in DOMAIN streams :
        LET old_mult == streams[u].mult
            new_mult == streams'[u].mult
        IN  (streams'[u] # streams[u] /\ stack # <<>> /\ old_mult > 0 /\ old_mult <= new_mult) =>
                \A p \in DOMAIN streams[u].buffers :
                    LET exact == streams[u].buffers[p].max * new_mult
                        got   == streams'[u].buffers[p].max * old_mult
                    IN  /\ exact - old_mult < got
                        /\ got < exact + old_mult
                        /\ streams'[u].buffers[p].current = streams[u].buffers[p].current

\* C18: when solve applies a pending change from old_mult to new_mult, with
\* old_mult <= new_mult, every buffer max of the stream becomes
\* max * new_mult / old_mult, also when new_mult is no multiple of old_mult,
\* and no current changes
C18_MaxScaledByRatio == [][RescaledByRatio]_vars

-----------------------------------------------------------------------------
(* Zero demand *)

\* the demand the supplied rate of input part i of stream s is divided by
DemandOf(st, s, i) ==
    RateMulInt(optimal_inflow_of(RecipeOf(st, s), RecipeOf(st, s).inputs[i].product),
               st[s].mult)

\* the least of the components of the input parts of s from part i on whose
\* demand is not zero, 1.0 when there is none
RECURSIVE LeastSupplied(_, _, _)
LeastSupplied(st, s, i) ==
    IF i > Len(RecipeOf(st, s).inputs) THEN EffOne
    ELSE LET rest == LeastSupplied(st, s, i + 1)
         IN  IF RateIsZero(DemandOf(st, s, i)) THEN rest
             ELSE EffMin(EffComponent(st, s, i), rest)

\* C19: when solve evaluates the efficiency of a stream with inputs, no
\* component is the quotient of a division by a zero demand, and the result
\* is the least component among the input parts with a demand, at most 1.0
C19_NoZeroDemandDivision ==
    (stack # <<>> /\ Top.pc = "enter" /\ Len(streams[Top.s].inputs) > 0) =>
        /\ \A i \in 1..Len(RecipeOf(streams, Top.s).inputs) :
              RateIsZero(DemandOf(streams, Top.s, i)) => EffComponent(streams, Top.s, i).den # 0
        /\ efficiency(streams, Top.s) = LeastSupplied(streams, Top.s, 1)

-----------------------------------------------------------------------------
(* Deferred changes *)

\* the streams bound to the input slots of s
DirectInputs(st, s) == {st[s].inputs[i].stream : i \in 1..Len(st[s].inputs)}

\* no step changes a stream that is a direct input of a stream whose solve
\* call has input slots left to evaluate
ChangesDeferred ==
    \A u \in DOMAIN streams :
        streams'[u] # streams[u] =>
            \A k \in 1..Len(stack) :
                stack[k].pc = "loop" => u \notin DirectInputs(streams, stack[k].s)

\* C20: while solve(S) is iterating over the input slots of S, the calls it
\* makes change neither the mult nor a buffer max of a direct input of S
C20_ChangesDeferred == [][ChangesDeferred]_vars

-----------------------------------------------------------------------------
(* Termination *)

\* every call on the stack but the first is on a direct input of its caller
Descends ==
    \A k \in 2..Len(stack) : stack[k].s \in DirectInputs(streams, stack[k - 1].s)

\* C21: on every acyclic wiring and with every initial multiplier, each
\* recursive call of solve is on a stream directly upstream of its caller
\* and every solve call returns
C21_SolveTerminates == []Descends /\ ((stack # <<>>) ~> (stack = <<>>))

\* a returned solve call on a three-stream wiring that changed a multiplier
C21_Witness ==
    /\ last.op = "solve"
    /\ stack = <<>>
    /\ Cardinality(DOMAIN streams) = 3
    /\ \E u \in DOMAIN streams : streams[u].mult # last.pre[u].mult

-----------------------------------------------------------------------------
(* Countdown bounds *)

\* the number of passes of the while loop of tick for these elapsed ticks,
\* countdown and period
RECURSIVE LoopPasses(_, _, _)
LoopPasses(ticks, next, reset) ==
    IF ticks > 0
    THEN IF ticks > reset THEN 1 + LoopPasses(ticks % reset, next, reset)
         ELSE IF ticks >= next THEN 1 + LoopPasses(ticks - next, next, reset)
         ELSE 1
    ELSE 0

\* C22: after any sequence of tick calls the countdown of every stream of
\* period p is between 1 and p, and the loop that split the elapsed ticks of
\* the last call made at most one pass per tick (none for no ticks)
C22_CountdownBounds ==
    \A s \in DOMAIN streams :
        LET p == RecipeOf(streams, s).rate.ticks
        IN  /\ p >= 1
            /\ streams[s].next # None => (1 <= streams[s].next /\ streams[s].next <= p)
            /\ last.op = "tick" =>
                  /\ LoopPasses(last.arg, NextBefore(s), p) <= last.arg
                  /\ LoopPasses(0, streams[s].next, p) = 0

\* a tick call that ended on a boundary of a stream whose countdown was
\* running, leaving one tick on the countdown of a period of four
C22_Witness ==
    /\ last.op = "tick"
    /\ \E s \in DOMAIN streams :
          /\ RecipeOf(streams, s).rate.ticks = 4
          /\ last.pre[s].next = 1
          /\ last.cycles[s] > 1
          /\ streams[s].next = 1

-----------------------------------------------------------------------------
(* Room for one cycle *)

\* C23: after construction with any multiplier and after any solve calls,
\* every output buffer of every stream has a max of at least one cycle's
\* yield, amount * mult, of its output part
C23_RoomForOneCycle ==
    stack = <<>> =>
        \A s \in DOMAIN streams :
            \A i \in 1..Len(RecipeOf(streams, s).outputs) :
                LET part == RecipeOf(streams, s).outputs[i]
                IN  /\ HasBuffer(streams[s], part.product)
                    /\ streams[s].buffers[part.product].max >= part.amount * streams[s].mult

====
